---------------------------- MODULE Spec2Model ----------------------------
(***************************************************************************)
(* Password strength meter and generator (src/app.py).                     *)
(*                                                                         *)
(* A password is a sequence of one-character strings.  evaluate_password   *)
(* is a pure function and is modelled as an operator; SpecEval applies it  *)
(* to a bounded set of inputs.  generate_strong_password is modelled as a  *)
(* state machine (clamp, seed, fill loop, shuffle, blacklist check);       *)
(* secrets.choice returns any element of its argument and shuffle leaves   *)
(* the list in any order: SpecGen admits every outcome of the random       *)
(* source.  Its runs are too many to enumerate (54080 seed lists, 70       *)
(* characters per fill draw, n! orders), so the properties of the          *)
(* generator are checked under SpecGenFollowed, whose steps are the steps  *)
(* of SpecGen with an outcome that FollowedSeed, FollowedFill and          *)
(* FollowedOrders admit.                                                   *)
(*                                                                         *)
(* A character is written as itself when it is one of the ASCII letters,   *)
(* digits and punctuation of OtherOrd, and as "U+XXXX" when it is one of   *)
(* the characters of WideOrd, on which str.isalpha, str.isdigit, \d and    *)
(* str.lower differ from the ASCII classes.                                *)
(***************************************************************************)
EXTENDS Integers, Sequences, FiniteSets

VARIABLES
    pc,              \* position of the current call
    password,        \* argument of evaluate_password
    result,          \* value returned by evaluate_password
    requested,       \* argument of generate_strong_password
    length,          \* local `length` of generate_strong_password
    password_chars,  \* local list `password_chars`
    generated,       \* local `generated`
    depth            \* recursion depth of generate_strong_password

vars == <<pc, password, result, requested, length, password_chars, generated, depth>>

(***************************************************************************)
(* Bounds of the model.                                                    *)
(***************************************************************************)
\* An evaluated password is an optional head, a freely chosen part of at
\* most MaxCore characters and a filler tail of at most MaxPad characters.
MaxCore == 3
MaxPad == 13
\* Requested lengths run from Below under the minimum of 8 up to MaxLen.
Below == 9
MaxLen == 16
\* Of the outcomes of the four seeding draws, the first SeedWidth rows of
\* the sample SampleRow are followed.
SeedWidth == 3
\* Of the outcomes of the fill loop, those that start at one of FillStarts
\* characters of allowed_chars and then move through allowed_chars by a fixed
\* step of at most MaxStep positions, up or down, are followed.
FillStarts == 4
MaxStep == 2
\* Of the orders the shuffle can leave, those that read the list from an
\* offset of at most MaxRot in strides of at most MaxStride are followed.
MaxStride == 3
MaxRot == 2
\* Recursion depth at which the model stops following retries.
MaxDepth == 2

\* Characters the freely chosen part of an evaluated password is drawn from.
EvalAlphabet == {"\n", "@", "A", "B", "a", "b", "c", "1", "2", "3"}
\* Characters beyond ASCII the freely chosen part is drawn from as well:
\* three neighbouring letters, an uppercase letter, a decimal digit and three
\* neighbouring digit characters that are not decimal digits.
WideAlphabet == {"U+00E0", "U+00E1", "U+00E2", "U+00C0",
                 "U+0661", "U+2460", "U+2461", "U+2462"}
\* The head, when present, brings all four character classes.
Heads == {<<>>, <<"Z", "z", "9", "*">>}
\* The filler: characters of no class, without repetition or run.
Filler == <<"-", "_">>

(***************************************************************************)
(* Python's string constants and character functions.                      *)
(***************************************************************************)
Range(s) == {s[i] : i \in 1..Len(s)}

ascii_lowercase == <<"a","b","c","d","e","f","g","h","i","j","k","l","m",
                     "n","o","p","q","r","s","t","u","v","w","x","y","z">>
ascii_uppercase == <<"A","B","C","D","E","F","G","H","I","J","K","L","M",
                     "N","O","P","Q","R","S","T","U","V","W","X","Y","Z">>
ascii_letters == ascii_lowercase \o ascii_uppercase
digits == <<"0","1","2","3","4","5","6","7","8","9">>

LowerSet == Range(ascii_lowercase)
UpperSet == Range(ascii_uppercase)
DigitSet == Range(digits)

\* Code points of the characters that are neither letters nor digits.
OtherOrd == [c \in {"\n", "!", "#", "$", "%", "&", "*", "-", "/", ":", "@",
                     "[", "^", "_", "{"} |->
               CASE c = "\n" -> 10 [] c = "!" -> 33 [] c = "#" -> 35
                 [] c = "$" -> 36 [] c = "%" -> 37 [] c = "&" -> 38
                 [] c = "*" -> 42 [] c = "-" -> 45 [] c = "/" -> 47
                 [] c = ":" -> 58 [] c = "@" -> 64 [] c = "[" -> 91
                 [] c = "^" -> 94 [] c = "_" -> 95 [] c = "{" -> 123]

\* Code points of the characters beyond ASCII.
WideOrd == [c \in {"U+00B2", "U+00B3", "U+00B9", "U+00C0", "U+00E0", "U+00E1",
                    "U+00E2", "U+0661", "U+0662", "U+0663", "U+212A",
                    "U+2460", "U+2461", "U+2462"} |->
              CASE c = "U+00B2" -> 178 [] c = "U+00B3" -> 179 [] c = "U+00B9" -> 185
                [] c = "U+00C0" -> 192 [] c = "U+00E0" -> 224 [] c = "U+00E1" -> 225
                [] c = "U+00E2" -> 226 [] c = "U+0661" -> 1633 [] c = "U+0662" -> 1634
                [] c = "U+0663" -> 1635 [] c = "U+212A" -> 8490
                [] c = "U+2460" -> 9312 [] c = "U+2461" -> 9313 [] c = "U+2462" -> 9314]

\* The characters str.isalpha accepts: the ASCII letters, the Latin-1 letters
\* and the Kelvin sign.
AlphaSet == LowerSet \cup UpperSet \cup {"U+00C0", "U+00E0", "U+00E1", "U+00E2", "U+212A"}
\* The characters the pattern \d matches: the decimal digits of every script.
DecimalSet == DigitSet \cup {"U+0661", "U+0662", "U+0663"}
\* The characters str.isdigit accepts: the decimal digits, the superscript
\* digits and the circled digits.
IsDigitSet == DecimalSet \cup {"U+00B2", "U+00B3", "U+00B9", "U+2460", "U+2461", "U+2462"}

IndexOf(s, c) == CHOOSE i \in 1..Len(s) : s[i] = c

OrdTable == [c \in LowerSet \cup UpperSet \cup DigitSet \cup DOMAIN OtherOrd
                     \cup DOMAIN WideOrd |->
               IF c \in LowerSet THEN 96 + IndexOf(ascii_lowercase, c)
               ELSE IF c \in UpperSet THEN 64 + IndexOf(ascii_uppercase, c)
               ELSE IF c \in DigitSet THEN 47 + IndexOf(digits, c)
               ELSE IF c \in DOMAIN OtherOrd THEN OtherOrd[c]
               ELSE WideOrd[c]]

ord(c) == OrdTable[c]

LowerTable == [c \in DOMAIN OrdTable |->
                 IF c \in UpperSet THEN ascii_lowercase[IndexOf(ascii_uppercase, c)]
                 ELSE IF c = "U+00C0" THEN "U+00E0"
                 ELSE IF c = "U+212A" THEN "k"
                 ELSE c]

\* str.lower()
lower(s) == [i \in 1..Len(s) |-> LowerTable[s[i]]]

\* str.isalpha(), str.isdigit(): non-empty and every character of the class
isalpha(s) == Len(s) > 0 /\ \A i \in 1..Len(s) : s[i] \in AlphaSet
isdigit(s) == Len(s) > 0 /\ \A i \in 1..Len(s) : s[i] \in IsDigitSet

\* re.search of a one-character class
re_search(class, s) == \E i \in 1..Len(s) : s[i] \in class

\* password[i:i+3] for a 0-based i with i + 3 <= len(password)
Slice3(s, i) == <<s[i + 1], s[i + 2], s[i + 3]>>

(***************************************************************************)
(* BLACKLIST                                                               *)
(***************************************************************************)
BLACKLIST == {
    <<"p","a","s","s","w","o","r","d">>, <<"p","a","s","s","w","o","r","d","1","2","3">>, <<"1","2","3","4","5","6">>, <<"q","w","e","r","t","y">>, <<"l","e","t","m","e","i","n">>,
    <<"a","d","m","i","n">>, <<"w","e","l","c","o","m","e">>, <<"1","1","1","1","1","1">>, <<"1","2","3","1","2","3">>, <<"i","l","o","v","e","y","o","u">>, <<"m","a","s","t","e","r">>,
    <<"s","u","n","s","h","i","n","e">>, <<"1","2","3","4","5","6","7","8","9">>, <<"f","o","o","t","b","a","l","l">>, <<"b","a","s","e","b","a","l","l">>, <<"m","o","n","k","e","y">>,
    <<"l","e","t","m","e","i","n">>, <<"s","h","a","d","o","w">>, <<"p","a","s","s","w","o","r","d","1">>, <<"1","2","3","4","5","6","7","8">>, <<"1","2","3","4">>, <<"a","b","c","1","2","3">>,
    <<"1","2","3","4","5","6","7">>, <<"p","a","s","s","w","o","r","d","!">>, <<"1","2","3","4","5">>, <<"d","r","a","g","o","n">>, <<"q","w","e","r","t","y","1","2","3">>, <<"s","u","p","e","r","m","a","n">>,
    <<"9","8","7","6","5","4","3","2","1">>, <<"m","y","p","a","s","s">>, <<"t","r","u","s","t","n","o","1">>, <<"h","e","l","l","o">>, <<"f","r","e","e","d","o","m">>, <<"p","r","i","n","c","e","s","s">>,
    <<"q","a","z","w","s","x">>, <<"n","i","n","j","a">>, <<"a","z","e","r","t","y">>, <<"p","a","s","s","w","o","r","d","1","2">>, <<"6","5","4","3","2","1">>, <<"p","a","s","s","w","0","r","d">>,
    <<"q","w","e","r","t","y","u","i","o","p">>, <<"1","2","3","3","2","1">>, <<"1","2","3","4","5","6","7","8","9","0">>, <<"1","2","3","4","5","6","a">>, <<"l","e","t","m","e","i","n","1","2","3">>, <<"6","6","6","6","6","6">>,
    <<"1","2","3","a","b","c">>, <<"p","a","s","s","w","o","r","d","1","2","3","4">>, <<"q","w","e","r","t","y","1","2","3","4">>, <<"1","2","3","4","5","6","7","8","9","a">>, <<"1","2","3","4","5","6","7","8","9","z">>, <<"1","2","3","4","5","6","7","8","9","x">>
}

(***************************************************************************)
(* evaluate_password                                                       *)
(***************************************************************************)
\* The character class of the regular expression [!@#$%^&*].
SpecialClassNoStar == {"!", "@", "#", "$", "%", "^", "&"}
SpecialClass == {"!", "@", "#", "$", "%", "^", "&", "*"}

\* `password.lower() in BLACKLIST`
BlacklistedAsTyped(pw) == pw \in BLACKLIST
Blacklisted(pw) == lower(pw) \in BLACKLIST

\* Each check takes and returns the pair of locals [score, feedback].
CheckLengthFlat(st, pw) ==
    IF Len(pw) >= 8
    THEN [st EXCEPT !.score = @ + 1]
    ELSE [st EXCEPT !.feedback = Append(@, "Increase the length to at least 8 characters.")]
CheckLength(st, pw) ==
    IF Len(pw) >= 12
    THEN [st EXCEPT !.score = @ + 2]
    ELSE IF Len(pw) >= 8
    THEN [st EXCEPT !.score = @ + 1]
    ELSE [st EXCEPT !.feedback = Append(@, "Increase the length to at least 8 characters.")]

CheckCaseEither(st, pw) ==
    IF re_search(UpperSet, pw) \/ re_search(LowerSet, pw)
    THEN [st EXCEPT !.score = @ + 1]
    ELSE [st EXCEPT !.feedback = Append(@, "Use both uppercase and lowercase letters.")]
CheckCase(st, pw) ==
    IF re_search(UpperSet, pw) /\ re_search(LowerSet, pw)
    THEN [st EXCEPT !.score = @ + 1]
    ELSE [st EXCEPT !.feedback = Append(@, "Use both uppercase and lowercase letters.")]

CheckDigit(st, pw) ==
    IF re_search(DecimalSet, pw)
    THEN [st EXCEPT !.score = @ + 1]
    ELSE [st EXCEPT !.feedback = Append(@, "Include at least one numeric digit (0-9).")]

CheckSpecial(st, pw) ==
    IF re_search(SpecialClass, pw)
    THEN [st EXCEPT !.score = @ + 1]
    ELSE [st EXCEPT !.feedback = Append(@, "Add at least one special character (!@#$%^&*).")]

LengthBonusAbove(st, pw) ==
    IF Len(pw) > 16 THEN [st EXCEPT !.score = @ + 1] ELSE st
LengthBonus(st, pw) ==
    IF Len(pw) >= 16 THEN [st EXCEPT !.score = @ + 1] ELSE st

\* re.search(r'(.)\1\1', password): `.` matches every character but a line feed.
CheckRepeat(st, pw) ==
    IF \E i \in 1..(Len(pw) - 2) :
          /\ pw[i] # "\n"
          /\ pw[i + 1] = pw[i]
          /\ pw[i + 2] = pw[i]
    THEN [st EXCEPT !.feedback = Append(@, "Avoid using the same character three times consecutively.")]
    ELSE st

\* The condition of the inner `if` on a three-character segment.
IsRun(seg) ==
    \/ ord(seg[2]) = ord(seg[1]) + 1 /\ ord(seg[3]) = ord(seg[2]) + 1
    \/ ord(seg[2]) = ord(seg[1]) - 1 /\ ord(seg[3]) = ord(seg[2]) - 1

SegmentFiresDigitsOnly(seg) == isdigit(seg) /\ IsRun(seg)
SegmentFires(seg) == (isalpha(seg) \/ isdigit(seg)) /\ IsRun(seg)

\* The loop `for i in range(len(password) - 2)` from index i on, with its break.
RECURSIVE SeqScanNoBreak(_, _, _)
SeqScanNoBreak(pw, i, feedback) ==
    IF i >= Len(pw) - 2 THEN feedback
    ELSE IF SegmentFires(Slice3(pw, i))
    THEN SeqScanNoBreak(pw, i + 1, Append(feedback, "Avoid using sequential characters (e.g., 'abc', 'cba', '123', or '321'); they weaken your password."))
    ELSE SeqScanNoBreak(pw, i + 1, feedback)
RECURSIVE SeqScan(_, _, _)
SeqScan(pw, i, feedback) ==
    IF i >= Len(pw) - 2 THEN feedback
    ELSE IF SegmentFires(Slice3(pw, i))
    THEN Append(feedback, "Avoid using sequential characters (e.g., 'abc', 'cba', '123', or '321'); they weaken your password.")
    ELSE SeqScan(pw, i + 1, feedback)

CheckSequential(st, pw) == [st EXCEPT !.feedback = SeqScan(pw, 0, @)]

\* Final strength interpretation.
InterpretStrict(score) ==
    IF score > 5 THEN "Strong" ELSE IF score > 3 THEN "Moderate" ELSE "Weak"
Interpret(score) ==
    IF score >= 5 THEN "Strong" ELSE IF score >= 3 THEN "Moderate" ELSE "Weak"

evaluate_password(pw) ==
    IF Blacklisted(pw)
    THEN [strength |-> "Weak", score |-> 0,
          feedback |-> <<"This password is too common. Please choose a different one.">>]
    ELSE LET s0 == [score |-> 0, feedback |-> <<>>]
             s1 == CheckLength(s0, pw)
             s2 == CheckCase(s1, pw)
             s3 == CheckDigit(s2, pw)
             s4 == CheckSpecial(s3, pw)
             s5 == LengthBonus(s4, pw)
             s6 == CheckRepeat(s5, pw)
             s7 == CheckSequential(s6, pw)
         IN  [strength |-> Interpret(s7.score), score |-> s7.score,
              feedback |-> s7.feedback]

(***************************************************************************)
(* Inputs of evaluate_password                                             *)
(***************************************************************************)
Cores == UNION {[1..l -> EvalAlphabet] \cup [1..l -> WideAlphabet] : l \in 0..MaxCore}

\* k filler characters
Pad(k) == [i \in 1..k |-> Filler[((i - 1) % 2) + 1]]

\* Every spelling of a blacklisted word whose lowercase form is the word.
Cased(c) == {d \in DOMAIN LowerTable : LowerTable[d] = c}
RECURSIVE Spellings(_)
Spellings(w) ==
    IF w = <<>> THEN {<<>>}
    ELSE {<<c>> \o rest : c \in Cased(Head(w)), rest \in Spellings(Tail(w))}
BlacklistInputs == UNION {Spellings(w) : w \in BLACKLIST}

\* Worked examples, inputs with more than one run, inputs beyond ASCII.
Ab1efghijkl == <<"A","b","1","!","e","f","g","h","i","j","k","l">>
ExampleInputs == {Ab1efghijkl,
                  <<"a","a","a","1","1","1","2","2">>,
                  <<"a","b","c","d","e","f","g","h">>,
                  <<"3","2","1","c","b","a">>,
                  <<"c","b","a","a","a">>,
                  <<"U+00C0","b","1","!","U+00E0","U+00E1","U+00E2","x">>,
                  <<"U+00B9","U+00B2","U+00B3">>,
                  <<"1","2","U+00B2">>,
                  <<"U+0663","U+0662","U+0661">>}

OtherInputs == BlacklistInputs \cup ExampleInputs

(***************************************************************************)
(* State machine                                                           *)
(***************************************************************************)
NoResult == [strength |-> "", score |-> 0, feedback |-> <<>>]

Init ==
    /\ pc = "idle"
    /\ password = <<>>
    /\ result = NoResult
    /\ requested = 0
    /\ length = 0
    /\ password_chars = <<>>
    /\ generated = <<>>
    /\ depth = 0

genVars == <<requested, length, password_chars, generated, depth>>
evalVars == <<password, result>>

\* The effect of a call evaluate_password(p).
Returns(p) ==
    /\ password' = p
    /\ result' = evaluate_password(p)
    /\ pc' = "evaluated"
    /\ UNCHANGED genVars

\* A call evaluate_password(p) on one of the inputs.
Evaluate ==
    /\ pc = "idle"
    /\ \/ \E head \in Heads, core \in Cores, k \in 0..MaxPad :
             Returns(head \o core \o Pad(k))
       \/ \E p \in OtherInputs : Returns(p)

NextEval == Evaluate

SpecEval == Init /\ [][NextEval]_vars

(***************************************************************************)
(* generate_strong_password                                                *)
(***************************************************************************)
special_chars == <<"!", "@", "#", "$", "%", "^", "&", "*">>
allowed_chars == ascii_letters \o digits \o <<"!", "@", "#", "$", "%", "^", "&", "*">>

\* secrets.choice(seq): any element of seq.
choice(seq) == Range(seq)

\* `if length < 8: length = 8`
NoClamp(n) == n
Clamp(n) == IF n < 8 THEN 8 ELSE n

\* The four guaranteed characters, in the order of the list literal.
SeedsWithoutSpecial ==
    {<<u, l, d>> : u \in choice(ascii_uppercase),
                   l \in choice(ascii_lowercase),
                   d \in choice(digits)}
Seeds ==
    {<<u, l, d, s>> : u \in choice(ascii_uppercase),
                      l \in choice(ascii_lowercase),
                      d \in choice(digits),
                      s \in choice(special_chars)}

\* SystemRandom().shuffle(x) can leave x in any order: position i of the
\* shuffled list holds the element that was at position p[i], for any
\* permutation p of the positions.
Permutations(n) == {p \in [1..n -> 1..n] : \A i, j \in 1..n : p[i] = p[j] => i = j}
Reorder(s, p) == [i \in 1..Len(s) |-> s[p[i]]]

\* The outcomes of the random source that are followed.
\* Row k of the seeding sample: one character of each class.
Pick(seq, k) == seq[((7 * k) % Len(seq)) + 1]
SampleRow(k) == {Pick(ascii_uppercase, k), Pick(ascii_lowercase, k),
                 Pick(digits, k), Pick(special_chars, k)}
FollowedSeed(t) == \E k \in 0..(SeedWidth - 1) : Range(t) \subseteq SampleRow(k)
\* The characters appended after the fourth: a walk through allowed_chars.
Walk(j, d, i) == allowed_chars[((18 * j + (Len(allowed_chars) + d) * (i - 1))
                                  % Len(allowed_chars)) + 1]
FollowedFill(chars, c) ==
    \E j \in 0..(FillStarts - 1), d \in (0 - MaxStep)..MaxStep :
        /\ \A i \in 5..Len(chars) : chars[i] = Walk(j, d, i - 4)
        /\ c = Walk(j, d, IF Len(chars) < 4 THEN 1 ELSE Len(chars) - 3)
\* Reading order of stride a from offset r.
Strided(n, a, r) == [i \in 1..n |-> ((a * (i - 1) + r) % n) + 1]
FollowedOrders(n) == {Strided(n, a, r) : a \in 1..MaxStride, r \in 0..MaxRot}

Requests == (8 - Below)..MaxLen

\* Entry of generate_strong_password(n), with the clamp.
Call ==
    /\ pc = "idle"
    /\ \E n \in Requests :
          /\ requested' = n
          /\ length' = Clamp(n)
    /\ depth' = 0
    /\ pc' = "seed"
    /\ UNCHANGED <<password_chars, generated, evalVars>>

\* password_chars = [choice(upper), choice(lower), choice(digits), choice(special)],
\* the four draws giving the list t.
SeedTo(t) ==
    /\ password_chars' = t
    /\ pc' = "fill"
    /\ UNCHANGED <<requested, length, generated, depth, evalVars>>
Seed == pc = "seed" /\ \E t \in Seeds : SeedTo(t)

\* One iteration of `while len(password_chars) < length`, the draw giving c.
FillWith(c) ==
    /\ Len(password_chars) < length
    /\ password_chars' = Append(password_chars, c)
    /\ UNCHANGED <<pc, requested, length, generated, depth, evalVars>>
Fill == pc = "fill" /\ \E c \in choice(allowed_chars) : FillWith(c)

\* Loop exit, shuffle and join, the shuffle leaving the order p.
ShuffleJoinBy(p) ==
    /\ ~(Len(password_chars) < length)
    /\ p \in Permutations(Len(password_chars))
    /\ password_chars' = Reorder(password_chars, p)
    /\ generated' = password_chars'
    /\ pc' = "check"
    /\ UNCHANGED <<requested, length, depth, evalVars>>
ShuffleJoin == pc = "fill" /\ \E p \in Permutations(Len(password_chars)) : ShuffleJoinBy(p)

\* `if generated.lower() in BLACKLIST: return generate_strong_password(length)`,
\* else `return generated`.
Check ==
    /\ pc = "check"
    /\ IF lower(generated) \in BLACKLIST
       THEN /\ depth < MaxDepth
            /\ depth' = depth + 1
            /\ length' = Clamp(length)
            /\ pc' = "seed"
       ELSE /\ pc' = "done"
            /\ UNCHANGED <<depth, length>>
    /\ UNCHANGED <<requested, password_chars, generated, evalVars>>

NextGen == Call \/ Seed \/ Fill \/ ShuffleJoin \/ Check

SpecGen == Init /\ [][NextGen]_vars

\* The steps of SpecGen whose random outcome is followed.
SeedFollowed ==
    pc = "seed" /\ \E t \in Seeds : FollowedSeed(t) /\ SeedTo(t)
FillFollowed ==
    pc = "fill" /\ \E c \in choice(allowed_chars) :
                      FollowedFill(password_chars, c) /\ FillWith(c)
ShuffleJoinFollowed ==
    pc = "fill" /\ \E p \in FollowedOrders(Len(password_chars)) : ShuffleJoinBy(p)

NextGenFollowed == Call \/ SeedFollowed \/ FillFollowed \/ ShuffleJoinFollowed \/ Check

SpecGenFollowed == Init /\ [][NextGenFollowed]_vars

(***************************************************************************)
(* Vocabulary of the properties                                            *)
(***************************************************************************)
CommonMsg == "This password is too common. Please choose a different one."
LengthMsg == "Increase the length to at least 8 characters."
CaseMsg == "Use both uppercase and lowercase letters."
DigitMsg == "Include at least one numeric digit (0-9)."
SpecialMsg == "Add at least one special character (!@#$%^&*)."
RepeatMsg == "Avoid using the same character three times consecutively."
SequentialMsg == "Avoid using sequential characters (e.g., 'abc', 'cba', '123', or '321'); they weaken your password."

Evaluated == pc = "evaluated"
Returned == pc = "done"

Specials == {"!", "@", "#", "$", "%", "^", "&", "*"}
IsUpper(c) == c \in UpperSet
IsLower(c) == c \in LowerSet
\* A decimal digit, of any script.
IsDigit(c) == c \in DecimalSet
\* A letter, and a digit character (decimal, superscript or circled digit).
IsLetter(c) == c \in AlphaSet
IsDigitCharacter(c) == c \in IsDigitSet
IsSpecial(c) == c \in Specials

HasUpper(s) == \E i \in DOMAIN s : IsUpper(s[i])
HasLower(s) == \E i \in DOMAIN s : IsLower(s[i])
HasDigit(s) == \E i \in DOMAIN s : IsDigit(s[i])
HasSpecial(s) == \E i \in DOMAIN s : IsSpecial(s[i])
AllFourClasses(s) == HasUpper(s) /\ HasLower(s) /\ HasDigit(s) /\ HasSpecial(s)

InBlacklist(s) == lower(s) \in BLACKLIST

Max(a, b) == IF a >= b THEN a ELSE b
Count(s, m) == Cardinality({i \in DOMAIN s : s[i] = m})
When(cond, m) == IF cond THEN <<m>> ELSE <<>>

\* Some character other than a line feed stands three times in a row.
HasTriple(s) ==
    \E i \in 1..(Len(s) - 2) : s[i] = s[i + 1] /\ s[i + 1] = s[i + 2] /\ s[i] # "\n"

\* Three neighbours, all letters or all digits, whose codes step by +1 or by -1.
RunAt(s, i) ==
    /\ \/ \A j \in i..(i + 2) : IsLetter(s[j])
       \/ \A j \in i..(i + 2) : IsDigitCharacter(s[j])
    /\ \/ \A j \in i..(i + 1) : ord(s[j + 1]) - ord(s[j]) = 1
       \/ \A j \in i..(i + 1) : ord(s[j + 1]) - ord(s[j]) = -1
RunIndices(s) == {i \in 1..(Len(s) - 2) : RunAt(s, i)}
HasRun(s) == RunIndices(s) # {}

ExpectedScore(s) ==
    (IF Len(s) >= 12 THEN 2 ELSE IF Len(s) >= 8 THEN 1 ELSE 0)
    + (IF HasUpper(s) /\ HasLower(s) THEN 1 ELSE 0)
    + (IF HasDigit(s) THEN 1 ELSE 0)
    + (IF HasSpecial(s) THEN 1 ELSE 0)
    + (IF Len(s) >= 16 THEN 1 ELSE 0)

ExpectedFeedback(s) ==
    When(Len(s) < 8, LengthMsg)
    \o When(~(HasUpper(s) /\ HasLower(s)), CaseMsg)
    \o When(~HasDigit(s), DigitMsg)
    \o When(~HasSpecial(s), SpecialMsg)
    \o When(HasTriple(s), RepeatMsg)
    \o When(HasRun(s), SequentialMsg)

(***************************************************************************)
(* Properties of generate_strong_password (checked under SpecGenFollowed)  *)
(***************************************************************************)
\* C1: every returned string has max(n, 8) characters, holds an uppercase
\* letter, a lowercase letter, a digit and a character of !@#$%^&*, and its
\* lowercase form is not blacklisted.
C1_Theorem ==
    Returned =>
        /\ Len(generated) = Max(requested, 8)
        /\ AllFourClasses(generated)
        /\ ~InBlacklist(generated)

\* A request below the minimum has returned an eight-character password.
C1_Witness ==
    Returned /\ requested = 3 /\ Len(generated) = 8 /\ AllFourClasses(generated)

\* Progress measure of one call: it falls with every step of the call.
Rank ==
    CASE pc = "seed" -> length + 3
      [] pc = "fill" -> (length - Len(password_chars)) + 2
      [] pc = "check" -> 1
      [] OTHER -> 0

InCall == pc \in {"seed", "fill", "check"}

\* No blacklisted word holds both a digit and a character of !@#$%^&*.
NoEntryHasDigitAndSpecial == \A w \in BLACKLIST : ~(HasDigit(w) /\ HasSpecial(w))

C9_Step ==
    /\ depth' = 0
    /\ pc = "check" => pc' = "done"
    /\ pc' = "check" => /\ HasDigit(generated')
                        /\ HasSpecial(generated')
                        /\ ~InBlacklist(generated')
    /\ NoEntryHasDigitAndSpecial
    /\ InCall => Rank' < Rank /\ Rank' >= 0
    /\ InCall' => ENABLED NextGenFollowed

\* C9: the call terminates in one attempt: every candidate holds a digit and
\* a character of !@#$%^&*, no blacklist entry holds both, the retry branch is
\* never taken (depth stays 0), every step of a call lowers its progress
\* measure and a call in progress can always take a step.
C9_Theorem == [][C9_Step]_vars

\* A call with the default length has returned at recursion depth 0.
C9_Witness == Returned /\ requested = 12 /\ depth = 0 /\ Len(generated) = 12

\* C10: the evaluator never rates a generated password "Weak" and adds none
\* of the common-password, length, case, digit or special-character messages;
\* the score is 4 for clamped lengths 8..11, 5 for 12..15 and 6 from 16 on, so
\* the rating is "Strong" exactly from clamped length 12 on, and the feedback
\* holds at most the repetition and the sequential-run warning.
C10_Theorem ==
    Returned =>
        LET r == evaluate_password(generated)
            n == Max(requested, 8)
        IN  /\ r.strength # "Weak"
            /\ \A m \in {CommonMsg, LengthMsg, CaseMsg, DigitMsg, SpecialMsg} :
                  Count(r.feedback, m) = 0
            /\ r.score = (IF n >= 16 THEN 6 ELSE IF n >= 12 THEN 5 ELSE 4)
            /\ (r.strength = "Strong") <=> (n >= 12)
            /\ (r.strength = "Moderate") <=> (n < 12)
            /\ \A i \in DOMAIN r.feedback : r.feedback[i] \in {RepeatMsg, SequentialMsg}

\* A generated password of 16 characters that draws the sequential-run
\* warning and is still rated "Strong" with score 6.
C10_Witness ==
    /\ Returned
    /\ requested = 16
    /\ evaluate_password(generated) =
          [strength |-> "Strong", score |-> 6, feedback |-> <<SequentialMsg>>]

(***************************************************************************)
(* Properties of evaluate_password (checked under SpecEval)                *)
(***************************************************************************)
\* C2: a password whose lowercase form is blacklisted, in any mix of cases,
\* gets "Weak", score 0 and the common-password message alone.
C2_Theorem ==
    (Evaluated /\ InBlacklist(password)) =>
        result = [strength |-> "Weak", score |-> 0, feedback |-> <<CommonMsg>>]

\* A blacklisted word typed with an uppercase letter has been evaluated.
C2_Witness ==
    /\ Evaluated
    /\ InBlacklist(password)
    /\ HasUpper(password)
    /\ result.feedback = <<CommonMsg>>

\* C3: for a password that is not blacklisted the score is the sum of the
\* length points (2 from 12 characters, 1 from 8), one point each for mixed
\* case, a digit and a special character, and one point from 16 characters;
\* the repetition and sequential-run checks add nothing, and the score lies
\* in 0..6.  A digit is a decimal digit of any script, as the pattern \d
\* judges; a superscript or circled digit is not one.
C3_Theorem ==
    (Evaluated /\ ~InBlacklist(password)) =>
        /\ result.score = ExpectedScore(password)
        /\ result.score \in 0..6

\* The maximal score 6 is reached.
C3_Witness == Evaluated /\ ~InBlacklist(password) /\ result.score = 6

\* C4: the label follows from the score alone: "Strong" from 5, "Moderate"
\* for 3 and 4, "Weak" below 3.
C4_Theorem ==
    Evaluated =>
        /\ (result.strength = "Strong") <=> (result.score >= 5)
        /\ (result.strength = "Moderate") <=> (result.score >= 3 /\ result.score < 5)
        /\ (result.strength = "Weak") <=> (result.score < 3)

\* A password has been rated "Strong" with score exactly 5.
C4_Witness == Evaluated /\ result.score = 5 /\ result.strength = "Strong"

\* C5 as stated: 15 characters with all four classes score 4 ("Moderate"),
\* 16 characters with all four classes score 5 ("Strong").
C5_Original ==
    (Evaluated /\ ~InBlacklist(password) /\ AllFourClasses(password)) =>
        /\ Len(password) = 15 => result.score = 4 /\ result.strength = "Moderate"
        /\ Len(password) = 16 => result.score = 5 /\ result.strength = "Strong"

\* C5 amended: 15 characters with all four classes score 5 ("Strong"),
\* 16 characters with all four classes score 6 ("Strong").
C5_Amended ==
    (Evaluated /\ ~InBlacklist(password) /\ AllFourClasses(password)) =>
        /\ Len(password) = 15 => result.score = 5 /\ result.strength = "Strong"
        /\ Len(password) = 16 => result.score = 6 /\ result.strength = "Strong"

\* A 15-character password with all four classes has been evaluated.
C5_Witness ==
    /\ Evaluated
    /\ ~InBlacklist(password)
    /\ AllFourClasses(password)
    /\ Len(password) = 15
    /\ result.score = 5

\* C6 as stated: "Ab1!efghijkl" gets score 5, "Strong" and no feedback.
C6_Original ==
    (Evaluated /\ password = Ab1efghijkl) =>
        result = [strength |-> "Strong", score |-> 5, feedback |-> <<>>]

\* C6 amended: "Ab1!efghijkl" gets score 5, "Strong" and exactly the
\* sequential-run warning (for "efg"), without the repetition warning.
C6_Amended ==
    (Evaluated /\ password = Ab1efghijkl) =>
        result = [strength |-> "Strong", score |-> 5, feedback |-> <<SequentialMsg>>]

\* "Ab1!efghijkl" has been evaluated; its first run starts at "efg".
C6_Witness ==
    /\ Evaluated
    /\ password = Ab1efghijkl
    /\ RunAt(password, 5)
    /\ result.feedback # <<>>

\* C7: for a password that is not blacklisted the feedback is the sub-list,
\* in the order length, case, digit, special, repetition, sequential run, of
\* the messages whose check failed or fired, each at most once; the empty
\* string gets the first four with score 0 and "Weak".
C7_Theorem ==
    (Evaluated /\ ~InBlacklist(password)) =>
        /\ result.feedback = ExpectedFeedback(password)
        /\ \A m \in {LengthMsg, CaseMsg, DigitMsg, SpecialMsg, RepeatMsg, SequentialMsg} :
              Count(result.feedback, m) <= 1
        /\ password = <<>> =>
              result = [strength |-> "Weak", score |-> 0,
                        feedback |-> <<LengthMsg, CaseMsg, DigitMsg, SpecialMsg>>]

\* A password that fails or fires all six checks has been evaluated.
C7_Witness ==
    /\ Evaluated
    /\ result.feedback = <<LengthMsg, CaseMsg, DigitMsg, SpecialMsg, RepeatMsg, SequentialMsg>>

\* C8: for a password that is not blacklisted the sequential-run warning
\* appears once if some three neighbours, all letters or all digits, step by
\* +1 or by -1, and not at all otherwise.  Letters and digits are what
\* str.isalpha and str.isdigit accept: letters of any script, and decimal,
\* superscript and circled digits.
C8_Theorem ==
    (Evaluated /\ ~InBlacklist(password)) =>
        Count(result.feedback, SequentialMsg) = (IF HasRun(password) THEN 1 ELSE 0)

\* A password with several runs has been evaluated and warned once.
C8_Witness ==
    /\ Evaluated
    /\ ~InBlacklist(password)
    /\ Cardinality(RunIndices(password)) >= 2
    /\ Count(result.feedback, SequentialMsg) = 1

============================================================================
